---- MODULE Spec2Model ----
(***************************************************************************)
(* Model of src/components/QuestionFlow.tsx: the answer-capture flow of    *)
(* one QuestionFlow component instance, with the platform objects it       *)
(* drives (getUserMedia streams, MediaRecorders, SpeechRecognition         *)
(* instances, narration audio contexts and utterances).                    *)
(*                                                                         *)
(* One action = one event handler or asynchronous callback, together with  *)
(* the React commit (re-render and effects) that its state updates cause.  *)
(***************************************************************************)
EXTENDS Integers, Sequences, FiniteSets, TLC

\* ---------------------------------------------------------------- bounds
\* getUserMedia calls per run
MaxStreams == 2
\* narrations started per run
MaxNarrations == 3
\* values taken by the question prop
MaxQuestions == 2
\* tokens kept in the transcript
MaxTranscript == 2
\* timer ticks counted
MaxDuration == 1
\* results carried by one recognition event
MaxResults == 2
\* tokens kept in the transcript while recognition events are explored
MaxSpoken == 4
\* Characters typed into the question field of CustomQuestionInput.
MaxText == 2
\* Effect runs of the visualizers that return a cleanup.
MaxEffects == 3
\* requestAnimationFrame requests of the visualizers.
MaxFrames == 5

NULL == 0

StreamIds == 1..MaxStreams
NarrationIds == 1..MaxNarrations

FlowStates ==
  {"READING", "INPUT_SELECTION", "RECORDING_VOICE", "PREVIEW_CAMERA",
   "RECORDING_CAMERA", "TYPING", "REVIEW", "REDO_CONFIRM"}
RecordingModes == {"RECORDING_VOICE", "RECORDING_CAMERA"}
CameraModes == {"PREVIEW_CAMERA", "RECORDING_CAMERA"}
RedoModes == {"voice", "camera", "typing"}

VARIABLES
  \* props and the component's life
  mounted, question, dontAskRedo, onCompleteCalls,
  \* useState
  flowState, transcript, cameraStream, voiceStream, recordedVideoUrl,
  recordedAudioUrl, isRecordingMedia, recordingDuration, playbackIsPlaying,
  isPaused, nextRedoMode,
  \* useRef
  mediaRecorderRef, ttsSourceRef, ttsAudioContextRef, recognitionRef,
  playbackAudioRef,
  \* platform objects
  streams,       \* getUserMedia requests/streams and the recorder made on each
  narrations,    \* narrations: timer, synthesis call, playback, utterance
  recognizers,   \* SpeechRecognition instances no longer held by the ref
  timerArmed,    \* the interval of the timer effect
  \* values captured by the closure of the question effect's cleanup
  cleanupCameraStream, cleanupVoiceStream,
  \* the visualizer components and the platform objects of their effects
  audioVisualizer, playbackVisualizer,
  effects,        \* the effect runs that returned a cleanup, and their closures
  frames,         \* requestAnimationFrame requests, by id
  audioContexts,  \* the AudioContexts made by AudioVisualizer
  \* CustomQuestionInput: useState, and the arguments of the last call of
  \* the onAdd prop (none before the first call)
  questionText, answerText, isExpanded, added

propVars == <<mounted, question, dontAskRedo, onCompleteCalls>>
stateVars ==
  <<flowState, transcript, cameraStream, voiceStream, recordedVideoUrl,
    recordedAudioUrl, isRecordingMedia, recordingDuration, playbackIsPlaying,
    isPaused, nextRedoMode>>
refVars ==
  <<mediaRecorderRef, ttsSourceRef, ttsAudioContextRef, playbackAudioRef>>
commitVars == <<stateVars, streams, recognitionRef, recognizers, timerArmed>>
closureVars == <<cleanupCameraStream, cleanupVoiceStream>>
visualizerVars ==
  <<audioVisualizer, playbackVisualizer, effects, frames, audioContexts>>
customQuestionVars ==
  <<questionText, answerText, isExpanded, added>>
vars ==
  <<propVars, commitVars, refVars, narrations, closureVars, visualizerVars,
    customQuestionVars>>

\* ------------------------------------------------------- platform objects
NoStream == [kind |-> "none", status |-> "unused", rec |-> "none"]
\* question is the value of the prop whose text the narration reads.
NoNarration ==
  [origin |-> "none", mode |-> "none", question |-> 0, stage |-> "unused",
   ctx |-> "none", isMounted |-> FALSE]

\* A narration that has signalled its completion ("done") or never will
\* ("dropped"): only its audio context, open or closed, is left of it.
Finished(nar, stage) == [NoNarration EXCEPT !.stage = stage, !.ctx = nar.ctx]

\* The React state of the current render, as one record.
State ==
  [flowState |-> flowState, transcript |-> transcript,
   cameraStream |-> cameraStream, voiceStream |-> voiceStream,
   recordedVideoUrl |-> recordedVideoUrl,
   recordedAudioUrl |-> recordedAudioUrl,
   isRecordingMedia |-> isRecordingMedia,
   recordingDuration |-> recordingDuration,
   playbackIsPlaying |-> playbackIsPlaying, isPaused |-> isPaused,
   nextRedoMode |-> nextRedoMode]

FreeStreams(strs) == {i \in StreamIds : strs[i].status = "unused"}
FreeStream(strs) ==
  CHOOSE i \in FreeStreams(strs) : \A j \in FreeStreams(strs) : i <= j
FreeNarrations == {n \in NarrationIds : narrations[n].stage = "unused"}
FreeNarration ==
  CHOOSE n \in FreeNarrations : \A m \in FreeNarrations : n <= m

\* navigator.mediaDevices.getUserMedia(...): the permission prompt is pending.
GetUserMedia(strs, kind) ==
  [strs EXCEPT ![FreeStream(strs)] =
     [kind |-> kind, status |-> "pending", rec |-> "none"]]

\* stream.getTracks().forEach(t => t.stop()).  A recorder whose stream has no
\* live track left stops by itself and queues its stop event.
StopTracks(strs, i) ==
  IF i = NULL \/ strs[i].status # "live" THEN strs
  ELSE [strs EXCEPT ![i].status = "stopped",
                    ![i].rec = IF strs[i].rec \in {"recording", "paused"}
                               THEN "stopping" ELSE strs[i].rec]

\* new SpeechRecognition() with the handlers of one run of the effect; the
\* onend handler closes over isRecordingMedia, isPaused and flowState, and of
\* flowState it only asks whether it is REVIEW.
NewRecognition(isRec, paused, flow) ==
  [run |-> "idle", isRecordingMedia |-> isRec, isPaused |-> paused,
   inReview |-> (flow = "REVIEW")]

\* recognition.start(): throws when already started (ignored by the callers).
RecognitionStart(r) == IF r.run = "idle" THEN [r EXCEPT !.run = "running"] ELSE r
\* recognition.stop(): the end event follows.
RecognitionStop(r) == IF r.run = "running" THEN [r EXCEPT !.run = "ending"] ELSE r

\* An instance that the ref no longer holds keeps running with its handlers.
Orphaned(orph, r) == IF r.run = "idle" THEN orph ELSE orph \cup {r}


\* ------------------------------------------------------------ React commit
\* The "Initialize Speech Recognition" effect: a new instance replaces the one
\* in recognitionRef, which is neither stopped nor told to forget its handlers.
RecognitionEffect(c, isRec, paused, flow) ==
  [ref |-> NewRecognition(isRec, paused, flow),
   orph |-> Orphaned(c.orph, c.ref)]

\* The commit of a render with the React state s (the state after the batched
\* updates of one handler), given the platform objects as the handler left
\* them.  Effects run in source order when one of their dependencies changed:
\* the timer effect, the recognition effect, then the flowState effect, whose
\* own setIsRecordingMedia / setCameraStream cause one more render.
Committed(s, strs, rref, orph) ==
  LET flowChanged == s.flowState # flowState
      recogDeps == flowChanged \/ s.isPaused # isPaused
      c0 == [ref |-> rref, orph |-> orph]
      c1 == IF recogDeps
            THEN RecognitionEffect(c0, s.isRecordingMedia, s.isPaused, s.flowState)
            ELSE c0
      \* flowState effect, camera part: startCamera() or stopCamera()
      inCamera == s.flowState \in CameraModes
      strs1 == IF ~flowChanged THEN strs
               ELSE IF inCamera THEN GetUserMedia(strs, "video")
               ELSE StopTracks(strs, s.cameraStream)
      cam1 == IF flowChanged /\ ~inCamera THEN NULL ELSE s.cameraStream
      \* flowState effect, recording part: startListening() or stopListening()
      isRec1 == IF flowChanged THEN s.flowState \in RecordingModes
                ELSE s.isRecordingMedia
      c2 == IF ~flowChanged THEN c1
            ELSE [c1 EXCEPT !.ref = IF isRec1 THEN RecognitionStart(c1.ref)
                                    ELSE RecognitionStop(c1.ref)]
      \* the render caused by setIsRecordingMedia runs the recognition effect again
      c3 == IF isRec1 # s.isRecordingMedia
            THEN RecognitionEffect(c2, isRec1, s.isPaused, s.flowState)
            ELSE c2
  IN [state |-> [s EXCEPT !.cameraStream = cam1, !.isRecordingMedia = isRec1],
      streams |-> strs1, ref |-> c3.ref, orph |-> c3.orph,
      timer |-> (s.flowState \in RecordingModes /\ ~s.isPaused)]

\* A commit that calls startCamera() needs a getUserMedia request left.
CanCommit(s, strs) ==
  (s.flowState # flowState /\ s.flowState \in CameraModes)
     => FreeStreams(strs) # {}

\* The handler's state updates take effect only while the component is mounted;
\* what it did to the platform objects happens either way.
Commit(s, strs, rref, orph) ==
  IF mounted
  THEN LET c == Committed(s, strs, rref, orph) IN
       /\ CanCommit(s, strs)
       /\ flowState' = c.state.flowState
       /\ transcript' = c.state.transcript
       /\ cameraStream' = c.state.cameraStream
       /\ voiceStream' = c.state.voiceStream
       /\ recordedVideoUrl' = c.state.recordedVideoUrl
       /\ recordedAudioUrl' = c.state.recordedAudioUrl
       /\ isRecordingMedia' = c.state.isRecordingMedia
       /\ recordingDuration' = c.state.recordingDuration
       /\ playbackIsPlaying' = c.state.playbackIsPlaying
       /\ isPaused' = c.state.isPaused
       /\ nextRedoMode' = c.state.nextRedoMode
       /\ streams' = c.streams
       /\ recognitionRef' = c.ref
       /\ recognizers' = c.orph
       /\ timerArmed' = c.timer
  ELSE /\ UNCHANGED <<stateVars, timerArmed>>
       /\ streams' = strs
       /\ recognitionRef' = rref
       /\ recognizers' = orph

\* A handler that only sets state.
SetState(s) == Commit(s, streams, recognitionRef, recognizers)


\* -------------------------------------------------------------------- Init
\* The component after its first commit: the question effect has reset the
\* state (to the values it already had) and armed the 500 ms narration timer;
\* its cleanup closed over cameraStream = voiceStream = null.
Init ==
  /\ mounted = TRUE
  /\ question = 1
  /\ dontAskRedo \in BOOLEAN
  /\ onCompleteCalls = 0
  /\ flowState = "READING"
  /\ transcript = <<>>
  /\ cameraStream = NULL
  /\ voiceStream = NULL
  /\ recordedVideoUrl = NULL
  /\ recordedAudioUrl = NULL
  /\ isRecordingMedia = FALSE
  /\ recordingDuration = 0
  /\ playbackIsPlaying = FALSE
  /\ isPaused = FALSE
  /\ nextRedoMode = "none"
  /\ mediaRecorderRef = NULL
  /\ ttsSourceRef = NULL
  /\ ttsAudioContextRef = NULL
  /\ recognitionRef = NewRecognition(FALSE, FALSE, "READING")
  /\ playbackAudioRef = NULL
  /\ streams = [i \in StreamIds |-> NoStream]
  /\ narrations =
       [n \in NarrationIds |->
          IF n = 1
          THEN [NoNarration EXCEPT !.origin = "question", !.question = 1,
                                   !.stage = "timer", !.isMounted = TRUE]
          ELSE NoNarration]
  /\ recognizers = {}
  /\ timerArmed = FALSE
  /\ cleanupCameraStream = NULL
  /\ cleanupVoiceStream = NULL
  /\ audioVisualizer = [mounted |-> FALSE, canvas2d |-> FALSE, stream |-> NULL,
                        isRecording |-> FALSE, cleanup |-> NULL]
  /\ playbackVisualizer = [mounted |-> FALSE, canvas2d |-> FALSE,
                           isPlaying |-> FALSE, cleanup |-> NULL]
  /\ effects = <<>>
  /\ frames = <<>>
  /\ audioContexts = <<>>
  /\ questionText = <<>>
  /\ answerText = <<>>
  /\ isExpanded = FALSE
  /\ added = <<>>

\* ------------------------------------------------------------ capture
\* startRecording('audio') up to its await: the microphone prompt is pending.
StartRecordingAudio(strs) == GetUserMedia(strs, "audio")

\* INPUT_SELECTION panel, Mic button: handleVoiceStart.
HandleVoiceStart ==
  /\ mounted /\ flowState = "INPUT_SELECTION"
  /\ FreeStreams(streams) # {}
  /\ streams' = StartRecordingAudio(streams)
  /\ UNCHANGED <<customQuestionVars, visualizerVars, propVars, stateVars, recognitionRef, recognizers, timerArmed,
                 refVars, narrations, closureVars>>

\* INPUT_SELECTION panel, Video button.
PickCamera ==
  /\ mounted /\ flowState = "INPUT_SELECTION"
  /\ SetState([State EXCEPT !.flowState = "PREVIEW_CAMERA"])
  /\ UNCHANGED <<customQuestionVars, visualizerVars, propVars, refVars, narrations, closureVars>>

\* INPUT_SELECTION panel, Keyboard button.
PickTyping ==
  /\ mounted /\ flowState = "INPUT_SELECTION"
  /\ SetState([State EXCEPT !.flowState = "TYPING"])
  /\ UNCHANGED <<customQuestionVars, visualizerVars, propVars, refVars, narrations, closureVars>>

\* startRecording after its stream is known: new MediaRecorder(stream),
\* start(), and the state updates of lines 396-426.
RecorderStarted(strs, i) == [strs EXCEPT ![i].rec = "recording"]

\* A startRecording without setIsPaused(false).
RecordingStateKeepsPause(s, mode) ==
  IF mode = "video"
  THEN [s EXCEPT !.recordingDuration = 0, !.flowState = "RECORDING_CAMERA"]
  ELSE [s EXCEPT !.recordingDuration = 0, !.transcript = <<>>,
                 !.flowState = "RECORDING_VOICE"]

RecordingState(s, mode) ==
  IF mode = "video"
  THEN [s EXCEPT !.recordingDuration = 0, !.isPaused = FALSE,
                 !.flowState = "RECORDING_CAMERA"]
  ELSE [s EXCEPT !.recordingDuration = 0, !.isPaused = FALSE,
                 !.transcript = <<>>, !.flowState = "RECORDING_VOICE"]

\* getUserMedia({audio: true}) resolves: the rest of startRecording('audio').
\* Nothing in it looks at the state the flow is in by now.
AudioGranted(i) ==
  /\ streams[i].kind = "audio" /\ streams[i].status = "pending"
  /\ mediaRecorderRef' = i
  /\ Commit(RecordingState([State EXCEPT !.voiceStream = i], "audio"),
            RecorderStarted([streams EXCEPT ![i].status = "live"], i),
            recognitionRef, recognizers)
  /\ UNCHANGED <<customQuestionVars, visualizerVars, propVars, ttsSourceRef, ttsAudioContextRef, playbackAudioRef,
                 narrations, closureVars>>

\* A startRecording whose catch block went on to record.
GetUserMediaDeniedRecords(i) ==
  /\ streams[i].status = "pending"
  /\ mediaRecorderRef' = i
  /\ Commit(RecordingState(State, "audio"),
            RecorderStarted([streams EXCEPT ![i].status = "denied"], i),
            recognitionRef, recognizers)
  /\ UNCHANGED <<customQuestionVars, visualizerVars, propVars, ttsSourceRef, ttsAudioContextRef, playbackAudioRef,
                 narrations, closureVars>>

\* getUserMedia rejects (permission denied): the catch block only logs.
GetUserMediaDenied(i) ==
  /\ streams[i].status = "pending"
  /\ streams' = [streams EXCEPT ![i].status = "denied"]
  /\ UNCHANGED <<customQuestionVars, visualizerVars, propVars, stateVars, recognitionRef, recognizers, timerArmed,
                 refVars, narrations, closureVars>>

\* getUserMedia({video: true, audio: true}) resolves: the rest of startCamera.
CameraGranted(i) ==
  /\ streams[i].kind = "video" /\ streams[i].status = "pending"
  /\ Commit([State EXCEPT !.cameraStream = i],
            [streams EXCEPT ![i].status = "live"], recognitionRef, recognizers)
  /\ UNCHANGED <<customQuestionVars, visualizerVars, propVars, refVars, narrations, closureVars>>

\* PREVIEW_CAMERA panel, Start button: startRecording('video') runs to its end
\* without awaiting; with no camera stream it returns at line 394.
HandleCameraRecordStart ==
  /\ mounted /\ flowState = "PREVIEW_CAMERA"
  /\ IF cameraStream = NULL
     THEN UNCHANGED <<commitVars, mediaRecorderRef>>
     ELSE /\ mediaRecorderRef' = cameraStream
          /\ Commit(RecordingState(State, "video"),
                    RecorderStarted(streams, cameraStream),
                    recognitionRef, recognizers)
  /\ UNCHANGED <<customQuestionVars, visualizerVars, propVars, ttsSourceRef, ttsAudioContextRef, playbackAudioRef,
                 narrations, closureVars>>

\* MediaRecorder.state of the recorder made on stream i; after stop() the
\* state is inactive at once and the stop event is still to come.
RecorderState(i) ==
  IF streams[i].rec \in {"recording", "paused"} THEN streams[i].rec
  ELSE "inactive"

\* Done button of RECORDING_VOICE / RECORDING_CAMERA: stopRecordingMedia.
StopRecordingMedia ==
  /\ mounted /\ flowState \in RecordingModes
  /\ IF mediaRecorderRef # NULL /\ RecorderState(mediaRecorderRef) # "inactive"
     THEN Commit([State EXCEPT !.flowState = "REVIEW"],
                 [streams EXCEPT ![mediaRecorderRef].rec = "stopping"],
                 recognitionRef, recognizers)
     ELSE UNCHANGED commitVars
  /\ UNCHANGED <<customQuestionVars, visualizerVars, propVars, refVars, narrations, closureVars>>

\* An onstop that exposes the recording and leaves the microphone open.
RecorderOnStopKeepsStream(i) ==
  /\ streams[i].rec = "stopping"
  /\ LET strs == [streams EXCEPT ![i].rec = "inactive"] IN
     IF streams[i].kind = "video"
     THEN Commit([State EXCEPT !.recordedVideoUrl = i], strs,
                 recognitionRef, recognizers)
     ELSE Commit([State EXCEPT !.recordedAudioUrl = i], strs,
                 recognitionRef, recognizers)
  /\ UNCHANGED <<customQuestionVars, visualizerVars, propVars, refVars, narrations, closureVars>>

\* mediaRecorder.onstop of the recorder made on stream i.  The object URL is
\* identified with the recorder it came from.
RecorderOnStop(i) ==
  /\ streams[i].rec = "stopping"
  /\ LET strs == [streams EXCEPT ![i].rec = "inactive"] IN
     IF streams[i].kind = "video"
     THEN Commit([State EXCEPT !.recordedVideoUrl = i], strs,
                 recognitionRef, recognizers)
     ELSE Commit([State EXCEPT !.recordedAudioUrl = i, !.voiceStream = NULL],
                 StopTracks(strs, i), recognitionRef, recognizers)
  /\ UNCHANGED <<customQuestionVars, visualizerVars, propVars, refVars, narrations, closureVars>>

\* A togglePause that flips the flag and the recognizer and leaves the
\* recorder alone.
TogglePauseFlagOnly ==
  /\ mounted /\ flowState = "RECORDING_VOICE"
  /\ IF mediaRecorderRef = NULL \/ RecorderState(mediaRecorderRef) = "inactive"
     THEN UNCHANGED commitVars
     ELSE IF isPaused
     THEN Commit([State EXCEPT !.isPaused = FALSE], streams,
                 RecognitionStart(recognitionRef), recognizers)
     ELSE Commit([State EXCEPT !.isPaused = TRUE], streams,
                 RecognitionStop(recognitionRef), recognizers)
  /\ UNCHANGED <<customQuestionVars, visualizerVars, propVars, refVars, narrations, closureVars>>

\* RECORDING_VOICE panel, pause button: togglePause.  resume() and pause()
\* throw InvalidStateError on an inactive recorder, which ends the handler.
TogglePause ==
  /\ mounted /\ flowState = "RECORDING_VOICE"
  /\ IF mediaRecorderRef = NULL \/ RecorderState(mediaRecorderRef) = "inactive"
     THEN UNCHANGED commitVars
     ELSE IF isPaused
     THEN Commit([State EXCEPT !.isPaused = FALSE],
                 [streams EXCEPT ![mediaRecorderRef].rec = "recording"],
                 RecognitionStart(recognitionRef), recognizers)
     ELSE Commit([State EXCEPT !.isPaused = TRUE],
                 [streams EXCEPT ![mediaRecorderRef].rec = "paused"],
                 RecognitionStop(recognitionRef), recognizers)
  /\ UNCHANGED <<customQuestionVars, visualizerVars, propVars, refVars, narrations, closureVars>>

\* An interval that no cleanup clears: it fires in any state.
TickNeverCleared ==
  /\ mounted
  /\ recordingDuration < MaxDuration
  /\ SetState([State EXCEPT !.recordingDuration = recordingDuration + 1])
  /\ UNCHANGED <<customQuestionVars, visualizerVars, propVars, refVars, narrations, closureVars>>

\* The interval of the timer effect fires.
Tick ==
  /\ mounted /\ timerArmed
  /\ recordingDuration < MaxDuration
  /\ SetState([State EXCEPT !.recordingDuration = recordingDuration + 1])
  /\ UNCHANGED <<customQuestionVars, visualizerVars, propVars, refVars, narrations, closureVars>>


\* ------------------------------------------------------ speech recognition
\* recognition.onresult: the text of the results from resultIndex on that are
\* final, each followed by a space.  results is 1-based here, resultIndex is
\* the 0-based index of the event; a result is its isFinal flag and its
\* alternatives, of which results[i][0].transcript is the first.
RECURSIVE FinalTranscriptFrom(_, _)
FinalTranscriptFrom(results, i) ==
  IF i > Len(results) THEN <<>>
  ELSE (IF results[i].isFinal THEN <<results[i].alternatives[1], " ">> ELSE <<>>)
       \o FinalTranscriptFrom(results, i + 1)

\* An onresult that starts at the first result whatever resultIndex says.
FinalTranscriptFromStart(event) == FinalTranscriptFrom(event.results, 1)

FinalTranscript(event) == FinalTranscriptFrom(event.results, event.resultIndex + 1)

\* A recognition result: final or interim, with two alternatives.
Results ==
  {[isFinal |-> f, alternatives |-> <<w, "misheard">>] :
     f \in BOOLEAN, w \in {"yes", "no"}}

\* Every result event of up to MaxResults results.
ResultEvents ==
  UNION {{[resultIndex |-> k, results |-> rs] :
            k \in 0..len, rs \in [1..len -> Results]} : len \in 1..MaxResults}

\* The result events the recognition engine delivers while one answer is
\* taken: one result, final or interim.
RecognitionEvents ==
  {[resultIndex |-> 0,
    results |-> <<[isFinal |-> f, alternatives |-> <<"spoken", "misheard">>]>>] :
     f \in BOOLEAN}

\* Every instance that can still deliver events: the one in the ref and the
\* ones the ref has dropped.  Instances with equal handlers are not told apart.
ActiveRecognizers ==
  Orphaned(recognizers, recognitionRef)

\* onresult of a running instance, while the transcript stays within cap.
OnResult(r, event, cap) ==
  /\ mounted
  /\ r \in ActiveRecognizers /\ r.run = "running"
  /\ LET finalTranscript == FinalTranscript(event) IN
     /\ Len(transcript \o finalTranscript) <= cap
     /\ IF finalTranscript # <<>>
        THEN SetState([State EXCEPT !.transcript = transcript \o finalTranscript])
        ELSE UNCHANGED commitVars
  /\ UNCHANGED <<customQuestionVars, visualizerVars, propVars, refVars, narrations, closureVars>>

RecognitionResult(r, event) == OnResult(r, event, MaxTranscript)

\* The auto-restart test of onend, on the values its closure holds.
RestartsOnEnd(r) ==
  r.isRecordingMedia /\ ~r.isPaused /\ ~r.inReview

\* onend of an instance (it ended by itself, or stop() was called on it):
\* the handler restarts whatever instance recognitionRef holds by then.
\* held tells the instance in the ref from the ones the ref has dropped.
RecognitionEnd(r, held) ==
  /\ IF held THEN r = recognitionRef /\ r.run # "idle" ELSE r \in recognizers
  /\ LET ref0 == IF held THEN [r EXCEPT !.run = "idle"] ELSE recognitionRef
     IN recognitionRef' = IF RestartsOnEnd(r) THEN RecognitionStart(ref0) ELSE ref0
  /\ recognizers' = IF held THEN recognizers ELSE recognizers \ {r}
  /\ UNCHANGED <<customQuestionVars, visualizerVars, propVars, stateVars, streams, timerArmed, refVars, narrations,
                 closureVars>>

\* ---------------------------------------------------------------- typing
\* onChange of the textarea of the TYPING and REVIEW panels.
EditTranscript(value) ==
  /\ mounted /\ flowState \in {"TYPING", "REVIEW"}
  /\ Len(value) <= MaxTranscript
  /\ SetState([State EXCEPT !.transcript = value])
  /\ UNCHANGED <<customQuestionVars, visualizerVars, propVars, refVars, narrations, closureVars>>

\* TYPING panel, Done button.
HandleTypingDone ==
  /\ mounted /\ flowState = "TYPING"
  /\ SetState([State EXCEPT !.flowState = "REVIEW"])
  /\ UNCHANGED <<customQuestionVars, visualizerVars, propVars, refVars, narrations, closureVars>>

\* -------------------------------------------------------------- narration
\* window.speechSynthesis.cancel(): utterances queued or being spoken are
\* dropped; their end event is not fired.
SpeechSynthesisCancel(narr) ==
  [n \in NarrationIds |->
     IF narr[n].stage = "speaking" THEN Finished(narr[n], "dropped")
     ELSE narr[n]]

\* ttsSourceRef.current.stop(): the source stops sounding; its ended event may
\* still be delivered.
SourceStop(narr, n) ==
  IF n # NULL /\ narr[n].stage = "playing"
  THEN [narr EXCEPT ![n].stage = "stopped"] ELSE narr

\* ttsAudioContextRef.current.close() when its state is not 'closed'.
ContextClose(narr, n) ==
  IF n # NULL /\ narr[n].ctx = "open"
  THEN [narr EXCEPT ![n].ctx = "closed",
                    ![n].stage = IF narr[n].stage = "playing" THEN "stopped"
                                 ELSE narr[n].stage]
  ELSE narr

\* The 500 ms timer of the question effect fires: playQuestionAudio() calls
\* generateSpeech and awaits it.
NarrationTimer(n) ==
  /\ narrations[n].stage = "timer"
  /\ narrations' = [narrations EXCEPT ![n].stage = "synth"]
  /\ UNCHANGED <<customQuestionVars, visualizerVars, propVars, commitVars, refVars, closureVars>>

\* What generateSpeech resolves to: samples that play, samples on which
\* decoding or playing throws, or nothing.
SynthesisResults == {"data", "undecodable", "none"}

\* generateSpeech resolves in playQuestionAudio (question effect) or in
\* redoAction (performRedo).  Only the former looks at isMounted, and only
\* its fallback cancels the synthesizer before speaking.
SynthesisResolved(n, res) ==
  /\ narrations[n].stage = "synth"
  /\ LET nar == narrations[n]
         guarded == nar.origin = "question"
         opened == [narrations EXCEPT ![n].ctx = "open"]
         spoken(narr) ==
           [(IF guarded THEN SpeechSynthesisCancel(narr) ELSE narr)
              EXCEPT ![n].stage = "speaking"]
     IN IF guarded /\ ~nar.isMounted
        THEN /\ narrations' = [narrations EXCEPT ![n] = Finished(nar, "dropped")]
             /\ UNCHANGED <<ttsSourceRef, ttsAudioContextRef>>
        ELSE IF res = "data"
        THEN /\ narrations' = [opened EXCEPT ![n].stage = "playing"]
             /\ ttsAudioContextRef' = n
             /\ ttsSourceRef' = n
        ELSE IF res = "undecodable"
        THEN /\ narrations' = spoken(opened)
             /\ ttsAudioContextRef' = n
             /\ UNCHANGED ttsSourceRef
        ELSE /\ narrations' = spoken(narrations)
             /\ UNCHANGED <<ttsSourceRef, ttsAudioContextRef>>
  /\ UNCHANGED <<customQuestionVars, visualizerVars, propVars, commitVars, mediaRecorderRef, playbackAudioRef,
                 closureVars>>

\* A startNextMode that forgets the mode it was asked for.
StartNextModeSelection(mode) ==
  SetState([State EXCEPT !.flowState = "INPUT_SELECTION"])

\* startNextMode of performRedo(mode).
StartNextMode(mode) ==
  IF mode = "voice"
  THEN /\ FreeStreams(streams) # {}
       /\ streams' = StartRecordingAudio(streams)
       /\ UNCHANGED <<stateVars, recognitionRef, recognizers, timerArmed>>
  ELSE IF mode = "camera"
  THEN SetState([State EXCEPT !.flowState = "PREVIEW_CAMERA"])
  ELSE IF mode = "typing"
  THEN SetState([State EXCEPT !.flowState = "TYPING"])
  ELSE SetState([State EXCEPT !.flowState = "INPUT_SELECTION"])

\* The completion handler of the question effect's narration
\* (source.onended, utter.onend).
QuestionNarrationEnded(n) ==
  IF narrations[n].isMounted
  THEN SetState([State EXCEPT !.flowState =
                   IF flowState = "READING" THEN "INPUT_SELECTION" ELSE flowState])
  ELSE UNCHANGED commitVars

\* A narration completes: the ended event of its buffer source, or the end
\* event of its utterance.
NarrationEnded(n) ==
  /\ narrations[n].stage \in {"playing", "stopped", "speaking"}
  /\ narrations' = [narrations EXCEPT ![n] = Finished(narrations[n], "done")]
  /\ IF narrations[n].origin = "question"
     THEN QuestionNarrationEnded(n)
     ELSE StartNextMode(narrations[n].mode)
  /\ UNCHANGED <<customQuestionVars, visualizerVars, propVars, refVars, closureVars>>


\* ------------------------------------------------------------------- redo
\* performRedo(mode): the answer is discarded, the flow goes back to READING
\* and redoAction() calls generateSpeech at once.
PerformRedo(mode) ==
  /\ FreeNarrations # {}
  /\ playbackAudioRef' = NULL
  /\ narrations' =
       [SpeechSynthesisCancel(narrations) EXCEPT ![FreeNarration] =
          [NoNarration EXCEPT !.origin = "redo", !.mode = mode,
                              !.question = question, !.stage = "synth"]]
  /\ SetState([State EXCEPT !.transcript = <<>>, !.recordedVideoUrl = NULL,
                            !.recordedAudioUrl = NULL, !.flowState = "READING",
                            !.playbackIsPlaying = FALSE])
  /\ UNCHANGED <<customQuestionVars, visualizerVars, propVars, mediaRecorderRef, ttsSourceRef, ttsAudioContextRef,
                 closureVars>>

\* An initiateRedo that reads the flag the wrong way round.
AsksBeforeRedoInverted == dontAskRedo

\* What initiateRedo(mode) does with the dontAskRedo prop.
AsksBeforeRedo == ~dontAskRedo

\* REVIEW panel, one of the three Redo buttons: initiateRedo(mode).
InitiateRedo(mode) ==
  /\ mounted /\ flowState = "REVIEW"
  /\ IF AsksBeforeRedo
     THEN /\ SetState([State EXCEPT !.nextRedoMode = mode,
                                    !.flowState = "REDO_CONFIRM"])
          /\ UNCHANGED <<customQuestionVars, visualizerVars, propVars, refVars, narrations, closureVars>>
     ELSE PerformRedo(mode)

\* REDO_CONFIRM panel, Yes button.
ConfirmRedo ==
  /\ mounted /\ flowState = "REDO_CONFIRM"
  /\ nextRedoMode # "none"
  /\ PerformRedo(nextRedoMode)

\* A Cancel button that goes back to REVIEW with the answer discarded.
CancelRedoDiscards ==
  /\ mounted /\ flowState = "REDO_CONFIRM"
  /\ SetState([State EXCEPT !.flowState = "REVIEW", !.transcript = <<>>,
                            !.recordedAudioUrl = NULL,
                            !.recordedVideoUrl = NULL])
  /\ UNCHANGED <<customQuestionVars, visualizerVars, propVars, refVars, narrations, closureVars>>

\* REDO_CONFIRM panel, Cancel button.
CancelRedo ==
  /\ mounted /\ flowState = "REDO_CONFIRM"
  /\ SetState([State EXCEPT !.flowState = "REVIEW"])
  /\ UNCHANGED <<customQuestionVars, visualizerVars, propVars, refVars, narrations, closureVars>>

\* REDO_CONFIRM panel, "Don't ask again" box: setDontAskRedo(!dontAskRedo);
\* the caller hands the new value back as the prop.
ToggleDontAskRedo ==
  /\ mounted /\ flowState = "REDO_CONFIRM"
  /\ dontAskRedo' = ~dontAskRedo
  /\ UNCHANGED <<customQuestionVars, visualizerVars, mounted, question, onCompleteCalls, commitVars, refVars,
                 narrations, closureVars>>

\* --------------------------------------------------------------- playback
\* REVIEW panel, play/pause button of the audio answer: handlePlayPause.
HandlePlayPause ==
  /\ mounted /\ flowState = "REVIEW"
  /\ recordedAudioUrl # NULL
  /\ playbackAudioRef' =
       IF playbackAudioRef = NULL THEN recordedAudioUrl ELSE playbackAudioRef
  /\ SetState([State EXCEPT !.playbackIsPlaying = ~playbackIsPlaying])
  /\ UNCHANGED <<customQuestionVars, visualizerVars, propVars, mediaRecorderRef, ttsSourceRef, ttsAudioContextRef,
                 narrations, closureVars>>

\* onended of the playback element.
PlaybackEnded ==
  /\ mounted /\ playbackAudioRef # NULL /\ playbackIsPlaying
  /\ SetState([State EXCEPT !.playbackIsPlaying = FALSE])
  /\ UNCHANGED <<customQuestionVars, visualizerVars, propVars, refVars, narrations, closureVars>>

\* ------------------------------------------------- question effect cleanup
\* The cleanup returned by the question effect.  Its isMounted flag belongs
\* to the narration that run of the effect scheduled; stopCamera and
\* voiceStream are those of the render in which the effect ran.
CleanupNarrations ==
  LET unmounted ==
        [n \in NarrationIds |->
           IF narrations[n].origin = "question" /\ narrations[n].isMounted
           THEN IF narrations[n].stage = "timer"
                THEN Finished(narrations[n], "dropped")
                ELSE [narrations[n] EXCEPT !.isMounted = FALSE]
           ELSE narrations[n]]
  IN ContextClose(SourceStop(SpeechSynthesisCancel(unmounted), ttsSourceRef),
                  ttsAudioContextRef)

CleanupStreams ==
  StopTracks(StopTracks(streams, cleanupCameraStream), cleanupVoiceStream)

\* A question effect that resets the flow mode and the streams only.
QuestionChangeKeepsAnswer ==
  /\ mounted /\ question < MaxQuestions
  /\ FreeNarrations # {}
  /\ question' = question + 1
  /\ narrations' =
       [CleanupNarrations EXCEPT ![FreeNarration] =
          [NoNarration EXCEPT !.origin = "question",
                              !.question = question + 1, !.stage = "timer",
                              !.isMounted = TRUE]]
  /\ cleanupCameraStream' = cameraStream
  /\ cleanupVoiceStream' = voiceStream
  /\ Commit([State EXCEPT !.flowState = "READING",
                          !.voiceStream = NULL, !.cameraStream = NULL],
            CleanupStreams, RecognitionStop(recognitionRef), recognizers)
  /\ UNCHANGED <<customQuestionVars, visualizerVars, mounted, dontAskRedo, onCompleteCalls, refVars>>

\* The question prop changes: the cleanup of the previous run, then the body
\* of the effect (state reset, narration timer), then the commit of the reset.
QuestionChange ==
  /\ mounted /\ question < MaxQuestions
  /\ FreeNarrations # {}
  /\ question' = question + 1
  /\ narrations' =
       [CleanupNarrations EXCEPT ![FreeNarration] =
          [NoNarration EXCEPT !.origin = "question",
                              !.question = question + 1, !.stage = "timer",
                              !.isMounted = TRUE]]
  /\ cleanupCameraStream' = cameraStream
  /\ cleanupVoiceStream' = voiceStream
  /\ Commit([State EXCEPT !.flowState = "READING", !.transcript = <<>>,
                          !.recordedVideoUrl = NULL, !.recordedAudioUrl = NULL,
                          !.voiceStream = NULL, !.cameraStream = NULL,
                          !.recordingDuration = 0, !.isPaused = FALSE],
            CleanupStreams, RecognitionStop(recognitionRef), recognizers)
  /\ UNCHANGED <<customQuestionVars, visualizerVars, mounted, dontAskRedo, onCompleteCalls, refVars>>

\* The component unmounts: the cleanups of the timer effect, of the playback
\* effect and of the question effect run; no state update has effect after.
Unmount ==
  /\ mounted
  /\ mounted' = FALSE
  /\ timerArmed' = FALSE
  /\ playbackAudioRef' = NULL
  /\ narrations' = CleanupNarrations
  /\ streams' = CleanupStreams
  /\ recognitionRef' = RecognitionStop(recognitionRef)
  /\ UNCHANGED <<customQuestionVars, visualizerVars, question, dontAskRedo, onCompleteCalls, stateVars, recognizers,
                 mediaRecorderRef, ttsSourceRef, ttsAudioContextRef, closureVars>>

\* ------------------------------------------------------------ visualizers
EffectIds == 1..MaxEffects
FrameIds == 1..MaxFrames

\* The platform objects the effects of the visualizers act on.
World == [effects |-> effects, frames |-> frames, audioContexts |-> audioContexts]

\* draw() of the effect run e, first statement, with the first id kept: the
\* closure's animationId is written by the call of the effect only.
DrawKeepsFirstId(e, w) ==
  [w EXCEPT !.frames = Append(@, [effect |-> e, state |-> "scheduled"]),
            !.effects[e].animationId =
               IF @ = NULL THEN Len(w.frames) + 1 ELSE @]

\* draw() of the effect run e, first statement: animationId =
\* requestAnimationFrame(draw). The request gets the next id and the closure's
\* animationId is overwritten with it; the rest of draw paints the canvas.
Draw(e, w) ==
  [w EXCEPT !.frames = Append(@, [effect |-> e, state |-> "scheduled"]),
            !.effects[e].animationId = Len(w.frames) + 1]

\* cancelAnimationFrame(id): a request still scheduled is cancelled, any other
\* id is ignored.
CancelAnimationFrame(id, frs) ==
  IF id \in DOMAIN frs /\ frs[id].state = "scheduled"
  THEN [frs EXCEPT ![id].state = "cancelled"]
  ELSE frs

\* The cleanup of AudioVisualizer's effect run e: cancelAnimationFrame(
\* animationId); if (audioCtx && audioCtx.state !== 'closed') audioCtx.close().
\* A run that returned before draw() (e = NULL) has no cleanup.
AudioVisualizerCleanup(e, w) ==
  IF e = NULL THEN w
  ELSE LET ctx == w.effects[e].audioCtx IN
       [w EXCEPT
          !.frames = CancelAnimationFrame(w.effects[e].animationId, @),
          !.audioContexts =
             IF ctx # NULL /\ @[ctx] # "closed"
             THEN [@ EXCEPT ![ctx] = "closed"] ELSE @]

\* The cleanup of PlaybackVisualizer's effect run e:
\* cancelAnimationFrame(animationId).
PlaybackVisualizerCleanup(e, w) ==
  IF e = NULL THEN w
  ELSE [w EXCEPT !.frames = CancelAnimationFrame(w.effects[e].animationId, @)]

\* The effect of AudioVisualizer, deps [stream, isRecording]. Without a 2d
\* context it returns at once. With a stream that is being recorded it makes
\* an AudioContext inside try; contextOk is FALSE when the constructor throws
\* (audioCtx stays null; a throw of createMediaStreamSource leaves the context
\* made and open, as after success). It then calls draw() and returns the
\* cleanup. The result is the effect run holding the cleanup, and the world.
AudioVisualizerEffect(canvas2d, stream, isRecording, contextOk, w) ==
  IF ~canvas2d THEN [cleanup |-> NULL, world |-> w]
  ELSE LET made == stream # NULL /\ isRecording /\ contextOk
           ctxs == IF made THEN Append(w.audioContexts, "running")
                           ELSE w.audioContexts
           e == Len(w.effects) + 1
           w1 == [w EXCEPT
                    !.audioContexts = ctxs,
                    !.effects = Append(@, [component |-> "AudioVisualizer",
                                           animationId |-> NULL,
                                           audioCtx |-> IF made THEN Len(ctxs)
                                                                ELSE NULL])]
       IN [cleanup |-> e, world |-> Draw(e, w1)]

\* The effect of PlaybackVisualizer, deps [isPlaying]: without canvas or 2d
\* context it returns at once; otherwise draw() and the cleanup.
PlaybackVisualizerEffect(canvas2d, w) ==
  IF ~canvas2d THEN [cleanup |-> NULL, world |-> w]
  ELSE LET e == Len(w.effects) + 1
           w1 == [w EXCEPT
                    !.effects = Append(@, [component |-> "PlaybackVisualizer",
                                           animationId |-> NULL,
                                           audioCtx |-> NULL])]
       IN [cleanup |-> e, world |-> Draw(e, w1)]

\* The world after a step of a visualizer.
SetWorld(w) ==
  /\ effects' = w.effects
  /\ frames' = w.frames
  /\ audioContexts' = w.audioContexts

\* An effect run needs a fresh effect, request and context.
CanRunEffect ==
  /\ Len(effects) < MaxEffects
  /\ Len(frames) < MaxFrames

HostUnchanged ==
  UNCHANGED <<propVars, commitVars, refVars, narrations, closureVars,
              customQuestionVars>>

\* <AudioVisualizer stream=... isRecording=... /> is mounted: the canvas is
\* made (canvas2d: getContext('2d') gives a context) and the effect runs.
MountAudioVisualizer(canvas2d, stream, isRecording, contextOk) ==
  /\ ~audioVisualizer.mounted
  /\ CanRunEffect
  /\ LET r == AudioVisualizerEffect(canvas2d, stream, isRecording, contextOk,
                                    World) IN
       /\ audioVisualizer' =
            [mounted |-> TRUE, canvas2d |-> canvas2d, stream |-> stream,
             isRecording |-> isRecording, cleanup |-> r.cleanup]
       /\ SetWorld(r.world)
  /\ UNCHANGED playbackVisualizer
  /\ HostUnchanged

\* AudioVisualizer is rendered with a changed stream or isRecording: the
\* cleanup of the last effect run, then the effect with the new props.
AudioVisualizerProps(stream, isRecording, contextOk) ==
  /\ audioVisualizer.mounted
  /\ <<stream, isRecording>> #
       <<audioVisualizer.stream, audioVisualizer.isRecording>>
  /\ CanRunEffect
  /\ LET r == AudioVisualizerEffect(
                audioVisualizer.canvas2d, stream, isRecording, contextOk,
                AudioVisualizerCleanup(audioVisualizer.cleanup, World)) IN
       /\ audioVisualizer' =
            [audioVisualizer EXCEPT !.stream = stream,
                                    !.isRecording = isRecording,
                                    !.cleanup = r.cleanup]
       /\ SetWorld(r.world)
  /\ UNCHANGED playbackVisualizer
  /\ HostUnchanged

\* AudioVisualizer unmounts: the cleanup of the last effect run.
UnmountAudioVisualizer ==
  /\ audioVisualizer.mounted
  /\ audioVisualizer' =
       [audioVisualizer EXCEPT !.mounted = FALSE, !.cleanup = NULL]
  /\ SetWorld(AudioVisualizerCleanup(audioVisualizer.cleanup, World))
  /\ UNCHANGED playbackVisualizer
  /\ HostUnchanged

\* <PlaybackVisualizer isPlaying=... /> is mounted and its effect runs.
MountPlaybackVisualizer(canvas2d, isPlaying) ==
  /\ ~playbackVisualizer.mounted
  /\ CanRunEffect
  /\ LET r == PlaybackVisualizerEffect(canvas2d, World) IN
       /\ playbackVisualizer' =
            [mounted |-> TRUE, canvas2d |-> canvas2d, isPlaying |-> isPlaying,
             cleanup |-> r.cleanup]
       /\ SetWorld(r.world)
  /\ UNCHANGED audioVisualizer
  /\ HostUnchanged

\* PlaybackVisualizer is rendered with a changed isPlaying: cleanup, effect.
PlaybackVisualizerProps ==
  /\ playbackVisualizer.mounted
  /\ CanRunEffect
  /\ LET r == PlaybackVisualizerEffect(
                playbackVisualizer.canvas2d,
                PlaybackVisualizerCleanup(playbackVisualizer.cleanup, World)) IN
       /\ playbackVisualizer' =
            [playbackVisualizer EXCEPT !.isPlaying = ~@, !.cleanup = r.cleanup]
       /\ SetWorld(r.world)
  /\ UNCHANGED audioVisualizer
  /\ HostUnchanged

\* PlaybackVisualizer unmounts: the cleanup of the last effect run.
UnmountPlaybackVisualizer ==
  /\ playbackVisualizer.mounted
  /\ playbackVisualizer' =
       [playbackVisualizer EXCEPT !.mounted = FALSE, !.cleanup = NULL]
  /\ SetWorld(PlaybackVisualizerCleanup(playbackVisualizer.cleanup, World))
  /\ UNCHANGED audioVisualizer
  /\ HostUnchanged

\* The browser runs the scheduled animation frame request f: draw() of the
\* effect run that made the request.
AnimationFrame(f) ==
  /\ f \in DOMAIN frames
  /\ frames[f].state = "scheduled"
  /\ Len(frames) < MaxFrames
  /\ SetWorld(Draw(frames[f].effect,
                   [World EXCEPT !.frames[f].state = "run"]))
  /\ UNCHANGED <<audioVisualizer, playbackVisualizer>>
  /\ HostUnchanged

\* ---------------------------------------------------- CustomQuestionInput
\* Strings are sequences of characters; two of them are white space.
WhiteSpace == {" ", "\n"}
Characters == WhiteSpace \cup {"a"}

\* What the question field can hold, and what the answer field can.
QuestionTexts == UNION {[1..len -> Characters] : len \in 0..MaxText}
AnswerTexts == {<<>>, <<"a">>, <<" ", "a", "\n">>}

\* String.prototype.trim: white space is removed from both ends.
RECURSIVE TrimStart(_)
TrimStart(text) ==
  IF text # <<>> /\ Head(text) \in WhiteSpace THEN TrimStart(Tail(text))
  ELSE text
RECURSIVE TrimEnd(_)
TrimEnd(text) ==
  IF text # <<>> /\ text[Len(text)] \in WhiteSpace
  THEN TrimEnd(SubSeq(text, 1, Len(text) - 1))
  ELSE text
Trim(text) == TrimEnd(TrimStart(text))

\* An Add button that is disabled for the empty string only.
DisabledWhenEmpty == questionText = <<>>

\* disabled={!questionText.trim()}: the empty string is the falsy one.
Disabled == Trim(questionText) = <<>>

CustomQuestionHostUnchanged ==
  UNCHANGED <<propVars, commitVars, refVars, narrations, closureVars,
              visualizerVars>>

\* onChange of the question input: setQuestionText(e.target.value).
SetQuestionText(value) ==
  /\ value # questionText
  /\ questionText' = value
  /\ UNCHANGED <<answerText, isExpanded, added>>
  /\ CustomQuestionHostUnchanged

\* onChange of the answer textarea: setAnswerText(e.target.value).
SetAnswerText(value) ==
  /\ value # answerText
  /\ answerText' = value
  /\ UNCHANGED <<questionText, isExpanded, added>>
  /\ CustomQuestionHostUnchanged

\* The Expand / Collapse button (the version with two arguments).
ToggleExpanded ==
  /\ isExpanded' = ~isExpanded
  /\ UNCHANGED <<questionText, answerText, added>>
  /\ CustomQuestionHostUnchanged

\* A click on the Add button of components/CustomQuestionInput.tsx; a
\* disabled button delivers no click.  onAdd(questionText).
AddClick ==
  /\ ~Disabled
  /\ added' = <<questionText>>
  /\ UNCHANGED <<questionText, answerText, isExpanded>>
  /\ CustomQuestionHostUnchanged

\* A click on the Add button of the version with two arguments:
\* onAdd(questionText, answerText).
AddClickWithAnswer ==
  /\ ~Disabled
  /\ added' = <<questionText, answerText>>
  /\ UNCHANGED <<questionText, answerText, isExpanded>>
  /\ CustomQuestionHostUnchanged

\* ------------------------------------------------------------------- Next
\* What the respondent leaves in the textarea after an edit.
TypedValues == {<<>>, <<"typed">>}

\* Narration events: timer, synthesis call, end of playback or utterance.
Narrate ==
  \/ \E n \in NarrationIds : NarrationTimer(n)
  \/ \E n \in NarrationIds, res \in SynthesisResults : SynthesisResolved(n, res)
  \/ \E n \in NarrationIds : NarrationEnded(n)

\* Device events: permission prompts answered, recorders stopped.
Devices ==
  \/ \E i \in StreamIds : AudioGranted(i)
  \/ \E i \in StreamIds : CameraGranted(i)
  \/ \E i \in StreamIds : GetUserMediaDenied(i)
  \/ \E i \in StreamIds : RecorderOnStop(i)

\* The buttons that take one answer from INPUT_SELECTION to REVIEW.
Answer ==
  \/ HandleVoiceStart
  \/ PickCamera
  \/ PickTyping
  \/ HandleCameraRecordStart
  \/ StopRecordingMedia
  \/ HandleTypingDone

\* Pause, timer, live transcription and the textarea.
Transcribe ==
  \/ TogglePause
  \/ Tick
  \/ \E r \in ActiveRecognizers, event \in RecognitionEvents :
        RecognitionResult(r, event)
  \/ \E r \in ActiveRecognizers, held \in BOOLEAN : RecognitionEnd(r, held)
  \/ \E value \in TypedValues : EditTranscript(value)

\* The Redo buttons and the confirmation panel.
Redo ==
  \/ \E mode \in RedoModes : InitiateRedo(mode)
  \/ ConfirmRedo
  \/ CancelRedo
  \/ ToggleDontAskRedo

Playback ==
  \/ HandlePlayPause
  \/ PlaybackEnded

\* What the caller does to the component.
Lifecycle ==
  \/ QuestionChange
  \/ Unmount

Next ==
  Narrate \/ Devices \/ Answer \/ Transcribe \/ Redo \/ Playback \/ Lifecycle

\* The whole component.
Spec == Init /\ [][Next]_vars

\* The component in narrower surroundings, each a subset of the behaviours of
\* Spec, small enough to be explored in full.
\* One answer to one question, with pause, timer and live transcription.
NextAnswer == Narrate \/ Devices \/ Answer \/ Transcribe
SpecAnswer == Init /\ [][NextAnswer]_vars

\* Answers and redos of one question.
NextRedo == Narrate \/ Devices \/ Answer \/ Redo
SpecRedo == Init /\ [][NextRedo]_vars

\* Question changes and unmount, with redos that are not asked about.
NextLifecycle ==
  Narrate \/ Devices \/ Answer \/ Lifecycle
    \/ \E mode \in RedoModes : InitiateRedo(mode)
InitLifecycle == Init /\ dontAskRedo = TRUE
SpecLifecycle == InitLifecycle /\ [][NextLifecycle]_vars

\* One voice answer, with every result event the recognizer can deliver.
NextTranscript ==
  \/ Narrate
  \/ HandleVoiceStart
  \/ \E i \in StreamIds : AudioGranted(i)
  \/ \E r \in ActiveRecognizers, event \in ResultEvents :
        OnResult(r, event, MaxSpoken)
SpecTranscript == Init /\ [][NextTranscript]_vars

\* One answer with pause, timer and a typed transcript, and question changes.
NextQuestion ==
  \/ Narrate \/ Devices \/ Answer
  \/ TogglePause
  \/ Tick
  \/ \E value \in TypedValues : EditTranscript(value)
  \/ QuestionChange
SpecQuestion == Init /\ [][NextQuestion]_vars

\* Answers that are played back in REVIEW, and question changes.
NextPlayback == Narrate \/ Devices \/ Answer \/ Playback \/ QuestionChange
SpecPlayback == Init /\ [][NextPlayback]_vars

\* CustomQuestionInput on its own, with the Add buttons of both versions.
NextCustomQuestion ==
  \/ \E value \in QuestionTexts : SetQuestionText(value)
  \/ \E value \in AnswerTexts : SetAnswerText(value)
  \/ ToggleExpanded
  \/ AddClick
  \/ AddClickWithAnswer
SpecCustomQuestion == Init /\ [][NextCustomQuestion]_vars

\* The visualizer components on their own, with any props: mounts, prop
\* changes, animation frames and unmounts.
NextVisualizer ==
  \/ \E canvas2d \in BOOLEAN, stream \in {NULL} \cup StreamIds,
        isRecording \in BOOLEAN, contextOk \in BOOLEAN :
        MountAudioVisualizer(canvas2d, stream, isRecording, contextOk)
  \/ \E stream \in {NULL} \cup StreamIds, isRecording \in BOOLEAN,
        contextOk \in BOOLEAN :
        AudioVisualizerProps(stream, isRecording, contextOk)
  \/ UnmountAudioVisualizer
  \/ \E canvas2d \in BOOLEAN, isPlaying \in BOOLEAN :
        MountPlaybackVisualizer(canvas2d, isPlaying)
  \/ PlaybackVisualizerProps
  \/ UnmountPlaybackVisualizer
  \/ \E f \in FrameIds : AnimationFrame(f)
SpecVisualizer == Init /\ [][NextVisualizer]_vars


\* ----------------------------------------------------------------- claims
LiveStreams == {i \in StreamIds : streams[i].status = "live"}

\* The narration started last.
StartedNarrations == {n \in NarrationIds : narrations[n].stage # "unused"}
CurrentNarration ==
  CHOOSE n \in StartedNarrations : \A m \in StartedNarrations : m <= n

\* Narration n completes in this step: its completion handler runs.
Completes(n) ==
  /\ narrations[n].stage \in {"playing", "stopped", "speaking"}
  /\ narrations'[n].stage = "done"

\* The stop callback of the recorder on stream i runs in this step.
Stops(i) == streams[i].rec = "stopping" /\ streams'[i].rec = "inactive"

\* C1: in every reachable state at most one capture stream obtained from
\* getUserMedia (microphone or camera) has live tracks.
C1_AtMostOneLiveStream == Cardinality(LiveStreams) <= 1

\* C2: the answer shown in REVIEW has the shape of the kind of the attempt:
\* a typed answer enters REVIEW with both URLs null; when the stop callback of
\* the recorder of a voice (camera) attempt runs in REVIEW, the audio (video)
\* URL is the one of that recorder and the other URL is null.
C2_AnswerShapeMatchesKind ==
  [][/\ (flowState = "TYPING" /\ flowState' = "REVIEW")
          => (recordedAudioUrl' = NULL /\ recordedVideoUrl' = NULL)
     /\ \A i \in StreamIds :
          (Stops(i) /\ mediaRecorderRef = i /\ flowState' = "REVIEW")
            => IF streams[i].kind = "audio"
               THEN recordedAudioUrl' = i /\ recordedVideoUrl' = NULL
               ELSE recordedVideoUrl' = i /\ recordedAudioUrl' = NULL]_vars

\* C3: onComplete is invoked exactly once per completed flow: never twice,
\* and in REVIEW some step of the component invokes it.
C3_OnCompleteOnceFromReview ==
  /\ onCompleteCalls <= 1
  /\ (mounted /\ flowState = "REVIEW")
       => ENABLED (Next /\ onCompleteCalls' = onCompleteCalls + 1)

\* C4: a redo requested in REVIEW goes straight to READING when dontAskRedo is
\* set and to REDO_CONFIRM when it is not; READING is entered from REVIEW only
\* with the flag set, and from REDO_CONFIRM only by the redo of the mode that
\* was asked about.
C4_RedoConfirmation ==
  [][/\ \A mode \in RedoModes :
          InitiateRedo(mode) =>
            IF dontAskRedo THEN flowState' = "READING"
            ELSE flowState' = "REDO_CONFIRM" /\ nextRedoMode' = mode
     /\ (flowState = "REVIEW" /\ flowState' = "READING") => dontAskRedo
     /\ (flowState = "REVIEW" /\ flowState' = "REDO_CONFIRM") => ~dontAskRedo
     /\ (flowState = "REDO_CONFIRM" /\ flowState' = "READING")
          => \E n \in NarrationIds :
               /\ narrations[n].stage = "unused"
               /\ narrations'[n].origin = "redo"
               /\ narrations'[n].mode = nextRedoMode]_vars

\* A redo that went through the confirmation panel with the flag unset.
C4_Witness ==
  /\ flowState = "READING" /\ ~dontAskRedo /\ nextRedoMode = "camera"
  /\ \E n \in NarrationIds :
       narrations[n].origin = "redo" /\ narrations[n].mode = "camera"

\* C5: the flow leaves READING only when the narration started by the most
\* recent entry into READING completes (or, once it has completed, when the
\* capture it asked for starts).
C5_OnlyNarrationLeavesReading ==
  [][(flowState = "READING" /\ flowState' # "READING")
       => \/ Completes(CurrentNarration)
          \/ narrations[CurrentNarration].stage = "done"]_vars

\* C6: once the question has changed or the component has unmounted, the
\* completion of a narration started before that changes no state and starts
\* no capture.
C6_AbandonedNarrationIsSilent ==
  [][\A n \in NarrationIds :
       (Completes(n) /\ (~mounted \/ narrations[n].question # question))
         => UNCHANGED <<stateVars, streams>>]_vars

\* C7: while a recording stays paused, recordingDuration does not advance and
\* nothing is appended to the transcript.
C7_PausedRecordingIsFrozen ==
  [][(flowState \in RecordingModes /\ flowState' = flowState
        /\ isPaused /\ isPaused')
       => (recordingDuration' = recordingDuration /\ transcript' = transcript)]_vars

\* C8: when the platform synthesizer finishes speaking the question for the
\* mounted question effect, the flow goes to INPUT_SELECTION.
C8_FallbackSpeechReachesSelection ==
  [][\A n \in NarrationIds :
       (/\ mounted /\ narrations[n].origin = "question"
        /\ narrations[n].isMounted /\ narrations[n].stage = "speaking"
        /\ Completes(n))
         => flowState' = "INPUT_SELECTION"]_vars

\* C9: a denied permission creates no recorder, stores no stream and leaves
\* flowState as it was; Start in PREVIEW_CAMERA without a camera stream does
\* not start a recording.
C9_DenialChangesNothing ==
  [][/\ \A i \in StreamIds :
          (streams[i].status = "pending" /\ streams'[i].status = "denied")
            => /\ flowState' = flowState
               /\ voiceStream' = voiceStream /\ cameraStream' = cameraStream
               /\ mediaRecorderRef' = mediaRecorderRef
               /\ \A j \in StreamIds : streams'[j].rec = streams[j].rec
     /\ (flowState = "PREVIEW_CAMERA" /\ cameraStream = NULL)
          => /\ flowState' # "RECORDING_CAMERA"
             /\ \A j \in StreamIds :
                  streams[j].kind = "video" => streams'[j].rec = streams[j].rec
     /\ (HandleCameraRecordStart /\ cameraStream = NULL)
          => (flowState' = "PREVIEW_CAMERA" /\ mediaRecorderRef' = mediaRecorderRef)]_vars

\* Microphone and camera both denied, the flow waiting in PREVIEW_CAMERA.
C9_Witness ==
  /\ flowState = "PREVIEW_CAMERA" /\ cameraStream = NULL /\ mediaRecorderRef = NULL
  /\ \E i, j \in StreamIds :
       /\ streams[i] = [kind |-> "audio", status |-> "denied", rec |-> "none"]
       /\ streams[j] = [kind |-> "video", status |-> "denied", rec |-> "none"]

\* C10: right after a question change or an unmount no device stream is live,
\* no recognizer runs, no narration context is open and nothing is spoken.
C10_NothingLeftAfterCleanup ==
  [][(question' # question \/ (mounted /\ ~mounted'))
       => /\ \A i \in StreamIds : streams'[i].status # "live"
          /\ recognitionRef'.run # "running"
          /\ \A r \in recognizers' : r.run # "running"
          /\ \A n \in NarrationIds :
               narrations'[n].ctx # "open" /\ narrations'[n].stage # "speaking"]_vars

\* Camera streams (acquired by startCamera) whose tracks have not been stopped.
LiveCameraStreams ==
  {i \in StreamIds : streams[i].kind = "video" /\ streams[i].status = "live"}

\* C11: whenever flowState is neither PREVIEW_CAMERA nor RECORDING_CAMERA,
\* every camera stream acquired by startCamera has had its tracks stopped.
C11_CameraReleasedOutsideCameraModes ==
  (mounted /\ flowState \notin CameraModes) => LiveCameraStreams = {}

\* The changes of flowState the flow is meant to make.
AllowedTransitions ==
  {<<"READING", "INPUT_SELECTION">>,
   <<"INPUT_SELECTION", "RECORDING_VOICE">>,
   <<"INPUT_SELECTION", "PREVIEW_CAMERA">>,
   <<"INPUT_SELECTION", "TYPING">>,
   <<"PREVIEW_CAMERA", "RECORDING_CAMERA">>,
   <<"RECORDING_VOICE", "REVIEW">>,
   <<"RECORDING_CAMERA", "REVIEW">>,
   <<"TYPING", "REVIEW">>,
   <<"REVIEW", "REDO_CONFIRM">>,
   <<"REVIEW", "READING">>,
   <<"REDO_CONFIRM", "READING">>,
   <<"REDO_CONFIRM", "REVIEW">>,
   <<"READING", "RECORDING_VOICE">>,
   <<"READING", "PREVIEW_CAMERA">>,
   <<"READING", "TYPING">>}

\* C12: every change of flowState is one of the listed transitions, or goes
\* to READING because the question changed.
C12_OnlyListedTransitions ==
  [][flowState' # flowState
       => \/ <<flowState, flowState'>> \in AllowedTransitions
          \/ (question' # question /\ flowState' = "READING")]_vars

\* The narration n is the one a redo of the given mode starts in this step.
StartsRedoNarration(n, mode) ==
  /\ narrations[n].stage = "unused"
  /\ narrations'[n].origin = "redo" /\ narrations'[n].stage = "synth"
  /\ narrations'[n].mode = mode

\* The microphone prompt of stream i is answered with a grant in this step.
Grants(i) ==
  /\ streams[i].kind = "audio" /\ streams[i].status = "pending"
  /\ streams'[i].status = "live"

PendingEvent ==
  \/ \E n \in NarrationIds :
       narrations[n].stage \in {"timer", "synth", "playing", "speaking"}
  \/ \E i \in StreamIds :
       streams[i].status = "pending" \/ streams[i].rec = "stopping"

\* A button of the panel shown that changes something when pressed.
UserCanAct == ENABLED <<Answer \/ Redo>>_vars

\* C14: no failure aborts the flow: before REVIEW is reached, either a user
\* action is enabled or an asynchronous event is pending; in particular the
\* flow is never in READING with no narration pending.
C14_FlowNeverStuck ==
  (mounted /\ flowState # "REVIEW") => (UserCanAct \/ PendingEvent)

\* Some SpeechRecognition instance is listening.
Listening(ref, orph) ==
  ref.run = "running" \/ \E r \in orph : r.run = "running"

\* C15: when a running recognizer ends by itself (as it does after a
\* 'no-speech' error) while the flow records and is not paused, a recognizer
\* is listening again after its onend handler; the handler changes neither
\* flowState nor any recorder.
C15_RecognizerRestarts ==
  [][\A r \in ActiveRecognizers, held \in BOOLEAN :
       (/\ RecognitionEnd(r, held) /\ r.run = "running"
        /\ mounted /\ flowState \in RecordingModes /\ ~isPaused)
         => /\ Listening(recognitionRef', recognizers')
            /\ flowState' = flowState
            /\ \A i \in StreamIds : streams'[i].rec = streams[i].rec]_vars

\* The results of the event that onresult looks at and that are final
\* (1-based positions).
FinalIndices(event) ==
  {i \in (event.resultIndex + 1)..Len(event.results) : event.results[i].isFinal}

\* text is the first alternative of each of those results, in order, each
\* followed by one space.
IsFinalText(event, text) ==
  /\ Len(text) = 2 * Cardinality(FinalIndices(event))
  /\ \A i \in FinalIndices(event) :
       LET k == Cardinality({j \in FinalIndices(event) : j < i})
       IN text[2 * k + 1] = event.results[i].alternatives[1]
          /\ text[2 * k + 2] = " "

\* C16: a recognition result event appends to the transcript exactly the
\* first alternatives of its final results at index >= resultIndex, in order,
\* each followed by one space; interim results add nothing and an event
\* without final results leaves the transcript as it was.
C16_AppendsFinalResults ==
  [][\A r \in ActiveRecognizers, event \in ResultEvents :
       OnResult(r, event, MaxSpoken) =>
         /\ Len(transcript') >= Len(transcript)
         /\ SubSeq(transcript', 1, Len(transcript)) = transcript
         /\ IsFinalText(event,
              SubSeq(transcript', Len(transcript) + 1, Len(transcript')))
         /\ (FinalIndices(event) = {} => UNCHANGED stateVars)]_vars

\* Two final results have been appended in order during a voice recording.
C16_Witness ==
  flowState = "RECORDING_VOICE" /\ transcript = <<"yes", " ", "no", " ">>

\* C17: stopping a voice recording queues the recorder's stop event, which
\* can then run; when it runs it exposes the audio as recordedAudioUrl, stops
\* the tracks of the microphone stream the recorder was made on and clears
\* voiceStream; no microphone stream is live once its recorder is inactive.
C17_VoiceStopReleasesMicrophone ==
  [][/\ (flowState = "RECORDING_VOICE" /\ flowState' = "REVIEW")
          => /\ mediaRecorderRef # NULL
             /\ streams'[mediaRecorderRef].rec = "stopping"
     /\ \A i \in StreamIds :
          /\ streams[i].rec = "stopping" => ENABLED RecorderOnStop(i)
          /\ (streams[i].kind = "audio" /\ Stops(i))
               => /\ streams'[i].status # "live"
                  /\ mounted => (recordedAudioUrl' = i /\ voiceStream' = NULL)
          /\ (streams'[i].kind = "audio" /\ streams'[i].rec = "inactive")
               => streams'[i].status # "live"]_vars

\* A voice answer in REVIEW after its recorder's stop event.
C17_Witness ==
  /\ flowState = "REVIEW" /\ voiceStream = NULL /\ recordedAudioUrl # NULL
  /\ streams[recordedAudioUrl] =
       [kind |-> "audio", status |-> "stopped", rec |-> "inactive"]

\* The MediaRecorders whose state is recording or paused.
ActiveRecorders == {i \in StreamIds : streams[i].rec \in {"recording", "paused"}}

\* C18: at most one MediaRecorder is recording or paused at any time.
C18_AtMostOneActiveRecorder == Cardinality(ActiveRecorders) <= 1

\* The narrations that sound: a buffer source playing or an utterance spoken.
AudibleNarrations ==
  {n \in NarrationIds : narrations[n].stage \in {"playing", "speaking"}}

\* C19: at most one narration is audible at any time.
C19_AtMostOneNarration == Cardinality(AudibleNarrations) <= 1

\* The animation frame requests of a component that are still scheduled.
ScheduledLoops(component) ==
  {f \in DOMAIN frames :
     /\ frames[f].state = "scheduled"
     /\ effects[frames[f].effect].component = component}

\* The AudioContexts that were made and not closed.
OpenContexts == {c \in DOMAIN audioContexts : audioContexts[c] # "closed"}

\* C20: across mounts, prop changes, animation frames and unmounts each
\* visualizer has at most one scheduled animation loop, AudioVisualizer has at
\* most one open AudioContext, and an unmounted visualizer has none of either.
C20_VisualizersReleaseLoopAndContext ==
  /\ Cardinality(ScheduledLoops("AudioVisualizer")) <= 1
  /\ Cardinality(ScheduledLoops("PlaybackVisualizer")) <= 1
  /\ Cardinality(OpenContexts) <= 1
  /\ ~audioVisualizer.mounted
       => (ScheduledLoops("AudioVisualizer") = {} /\ OpenContexts = {})
  /\ ~playbackVisualizer.mounted => ScheduledLoops("PlaybackVisualizer") = {}

\* AudioVisualizer was torn down after a prop change and after frames of its
\* loop ran: an earlier effect run made a context, a frame of a run was drawn
\* by the browser, and the component is unmounted.
C20_Witness ==
  /\ ~audioVisualizer.mounted
  /\ \E c \in DOMAIN audioContexts : audioContexts[c] = "closed"
  /\ \E f \in DOMAIN frames :
        /\ frames[f].state = "run"
        /\ effects[frames[f].effect].component = "AudioVisualizer"
  /\ Cardinality({e \in DOMAIN effects :
                    effects[e].component = "AudioVisualizer"}) >= 2
  /\ playbackVisualizer.mounted
  /\ \E f \in DOMAIN frames :
        /\ frames[f].state = "run"
        /\ effects[frames[f].effect].component = "PlaybackVisualizer"

\* C21: a step from REDO_CONFIRM to REVIEW (the Cancel button) leaves
\* transcript, recordedAudioUrl, recordedVideoUrl and recordingDuration as
\* they were and starts no narration, no getUserMedia request and no recorder.
C21_CancelKeepsAnswer ==
  [][(flowState = "REDO_CONFIRM" /\ flowState' = "REVIEW")
       => /\ transcript' = transcript
          /\ recordedAudioUrl' = recordedAudioUrl
          /\ recordedVideoUrl' = recordedVideoUrl
          /\ recordingDuration' = recordingDuration
          /\ narrations' = narrations
          /\ \A i \in StreamIds :
                /\ streams[i].status = "unused" => streams'[i].status = "unused"
                /\ streams'[i].rec = "recording" => streams[i].rec = "recording"
          /\ mediaRecorderRef' = mediaRecorderRef]_vars

\* REVIEW after a cancelled redo of a recorded answer: a redo mode was asked
\* about, no redo was ever performed, and the recording is still there.
C21_Witness ==
  /\ flowState = "REVIEW"
  /\ nextRedoMode # "none"
  /\ \A n \in NarrationIds : narrations[n].origin # "redo"
  /\ recordedAudioUrl # NULL

\* C22: after a redo the discarded answer stays discarded. The flow is in
\* READING only from a redo (or the start) until the replayed narration has
\* routed it on, and a recorder started after the redo stops only once the
\* flow has left READING: so in READING both URLs are null and playback is
\* stopped, whatever stop callbacks run.
C22_RedoDiscardsAnswer ==
  flowState = "READING"
     => /\ recordedAudioUrl = NULL /\ recordedVideoUrl = NULL
        /\ ~playbackIsPlaying /\ playbackAudioRef = NULL

\* The recognizer instances the component made that are running, held by
\* recognitionRef or not: each delivers its results to onresult.
RunningRecognizers == {r \in ActiveRecognizers : r.run = "running"}

\* C23: outside unpaused RECORDING_VOICE / RECORDING_CAMERA no recognizer
\* instance made by the component is running.
C23_RecognitionOnlyWhileRecording ==
  (mounted /\ ~(flowState \in RecordingModes /\ ~isPaused))
     => RunningRecognizers = {}

C26_QuestionChangeResets ==
  [][question' # question
       => /\ flowState' = "READING"
          /\ transcript' = <<>>
          /\ recordedAudioUrl' = NULL /\ recordedVideoUrl' = NULL
          /\ recordingDuration' = 0
          /\ ~isPaused'
          /\ \E n \in NarrationIds :
                /\ narrations'[n].origin = "question"
                /\ narrations'[n].question = question'
                /\ narrations'[n].stage = "timer"
                /\ narrations'[n].isMounted]_vars

\* The second question is about to be read after the first was left while or
\* after a recording was made: a recorder of the first question exists and
\* the state is that of a fresh flow.
C26_Witness ==
  /\ question = 2 /\ flowState = "READING" /\ transcript = <<>>
  /\ recordingDuration = 0 /\ ~isPaused
  /\ \E i \in StreamIds : streams[i].rec # "none"
  /\ \E n \in NarrationIds :
        narrations[n].question = 2 /\ narrations[n].stage = "timer"

\* C27: while the component is mounted, playbackIsPlaying is set only in
\* REVIEW with a recorded audio answer, and the audio element that plays was
\* made from the current recordedAudioUrl.
C27_PlaybackOfCurrentAnswer ==
  (mounted /\ playbackIsPlaying)
     => /\ flowState = "REVIEW"
        /\ recordedAudioUrl # NULL
        /\ playbackAudioRef = recordedAudioUrl

\* C28: in a recording mode mediaRecorderRef holds a recorder that is paused
\* when isPaused is set and recording when it is not, so togglePause calls
\* resume() on a paused recorder and pause() on a recording one.
C28_PauseFlagMatchesRecorder ==
  (mounted /\ flowState \in RecordingModes)
     => /\ mediaRecorderRef # NULL
        /\ streams[mediaRecorderRef].rec =
              IF isPaused THEN "paused" ELSE "recording"

\* A voice recording is paused on the recorder of the latest microphone
\* grant while the recorder of an earlier grant is still active.
C28_Witness ==
  /\ flowState = "RECORDING_VOICE" /\ isPaused
  /\ mediaRecorderRef # NULL /\ streams[mediaRecorderRef].rec = "paused"
  /\ \E i \in StreamIds :
        i # mediaRecorderRef /\ streams[i].rec \in {"recording", "paused"}

\* C29: onAdd is called only while the question field holds a character that
\* is not white space, and it gets the field contents as they are: the
\* question text, and in the two-argument version the answer text as well.
C29_AddPassesFieldContents ==
  [][added' # added
       => /\ \E k \in DOMAIN questionText : questionText[k] \notin WhiteSpace
          /\ added' \in {<<questionText>>, <<questionText, answerText>>}]_vars

\* onAdd was called with a question that starts with white space and an
\* answer that ends with it: neither was trimmed.
C29_Witness ==
  added = <<(<<" ", "a">>), (<<" ", "a", "\n">>)>>

====
